---- MODULE Spec2Model ----
(***************************************************************************)
(* Model of the OCR demo application:                                      *)
(*   - the proxy route  frontend/src/app/api/ocr/route.ts  (POST handler)  *)
(*   - the upload page  frontend/src/app/page.tsx          (Home)          *)
(* The two components do not call each other (the page posts directly to   *)
(* the backend), so each has its own next-state relation and               *)
(* specification over the shared variable list.                            *)
(*                                                                         *)
(* The user-visible messages of the source are Japanese; TLA+ strings are  *)
(* ASCII, so each message constant below is the English rendering of the   *)
(* literal named in its comment.                                           *)
(***************************************************************************)
EXTENDS Integers, Sequences, FiniteSets, TLC

VARIABLES
    \* ---- proxy route (route.ts) ----
    pc,           \* position of the POST handler: "idle", "fetching", "responded"
    backendUrl,   \* process.env.BACKEND_URL ("" when unset)
    nodeEnv,      \* process.env.NODE_ENV
    request,      \* the inbound request being handled
    forwarded,    \* sequence of fetch calls the handler issued to the backend
    answer,       \* what the backend answered to the forwarded call
    responses,    \* sequence of responses the handler returned
    \* ---- upload page (page.tsx) ----
    file,         \* useState<File | null>
    imagePreview, \* useState<string>
    ocrResult,    \* useState<OCRResult | null>
    isProcessing, \* useState<boolean>
    error,        \* useState<string>
    readers,      \* FileReader reads started by onDrop and not yet finished
    inflight,     \* fetch calls of processOCR that have not settled yet
    started,      \* number of processOCR runs that passed the `if (!file)` guard
    fetches,      \* number of fetch calls processOCR issued
    nreads,       \* number of FileReader reads started
    downloaded,   \* content of the last file produced by downloadResult
    loaded,       \* history: number of reads whose onload callback has run
    lastEvent     \* history: the handler or callback that ran last

pvars == <<pc, backendUrl, nodeEnv, request, forwarded, answer, responses>>
uvars == <<file, imagePreview, ocrResult, isProcessing, error, readers, inflight,
           started, fetches, nreads, downloaded, loaded, lastEvent>>
vars == <<pc, backendUrl, nodeEnv, request, forwarded, answer, responses,
          file, imagePreview, ocrResult, isProcessing, error, readers, inflight,
          started, fetches, nreads, downloaded, loaded, lastEvent>>

(***************************************************************************)
(* JavaScript values as they come out of JSON.parse, and the three         *)
(* conversions the code applies to them.                                   *)
(* A value is [t |-> type tag, s |-> its String() text].                   *)
(***************************************************************************)
JUndefined == [t |-> "undefined", s |-> "undefined"]
JNull == [t |-> "null", s |-> "null"]
JStr(str) == [t |-> "string", s |-> str]
\* a number, written as String() prints it ("0", "0.87", "2.5")
JNum(lit) == [t |-> "number", s |-> lit]
\* an array, with String(array) = the comma-joined elements ("" for [])
JArr(joined) == [t |-> "array", s |-> joined]
JObj == [t |-> "object", s |-> "[object Object]"]

\* ToBoolean, as `a || b` applies it to a
Truthy(v) ==
    CASE v.t = "undefined" -> FALSE
      [] v.t = "null" -> FALSE
      [] v.t = "number" -> v.s # "0"
      [] v.t = "string" -> v.s # ""
      [] OTHER -> TRUE

\* a || b
Or(a, b) == IF Truthy(a) THEN a ELSE b

\* ToString, as `new Error(v)` applies it to v
JSToString(v) == v.s

\* String.prototype.startsWith
StartsWith(str, prefix) ==
    /\ Len(str) >= Len(prefix)
    /\ SubSeq(str, 1, Len(prefix)) = prefix

(***************************************************************************)
(* Proxy route: route.ts                                                   *)
(***************************************************************************)
\* 10 * 1024 * 1024, the ceiling of the size check
MaxFileSize == 10 * 1024 * 1024

\* { error: 'ファイルが見つかりません' }
MsgNoFile == "File not found"
\* { error: 'ファイルサイズは10MB以下にしてください' }
MsgTooLarge == "File size must be 10MB or less"
\* { error: '画像ファイルを選択してください' }
MsgNotImage == "Please select an image file"
\* .catch(() => ({ error: 'バックエンドサーバーエラー' }))
MsgBackendError == "Backend server error"
\* `HTTPエラー: ${response.status}`
MsgHttpError(status) == "HTTP error: " \o ToString(status)
\* 'OCR処理でエラーが発生しました'
MsgOcrError == "An error occurred during OCR processing"

DefaultBackendUrl == "http://localhost:8000"

\* ---- inputs of the handler ----
NoFile == [kind |-> "none", size |-> 0, type |-> "", bytes |-> ""]
File(size, type, bytes) == [kind |-> "file", size |-> size, type |-> type, bytes |-> bytes]

FileSizes == {0, 1, MaxFileSize - 1, MaxFileSize, MaxFileSize + 1, 2 * MaxFileSize}
FileTypes == {"image/png", "image/", "image", "Image/png", "text/plain", ""}
Files == {File(sz, ty, by) : sz \in FileSizes, ty \in FileTypes, by \in {"bytesA"}}
           \cup {File(sz, "image/png", "bytesB") : sz \in {1, MaxFileSize}}

\* What formData.get('file') can evaluate to: null (field absent), a string
\* (a text field named file), or a File; or request.formData() throws.
NoRequest == [kind |-> "none", str |-> "", file |-> NoFile]
Requests ==
    {[kind |-> "unparseable", str |-> "", file |-> NoFile],
     [kind |-> "absent", str |-> "", file |-> NoFile],
     [kind |-> "string", str |-> "", file |-> NoFile],
     [kind |-> "string", str |-> "hello", file |-> NoFile]}
      \cup {[kind |-> "file", str |-> "", file |-> f] : f \in Files}

\* ---- what the backend can answer ----
Body(json, text, confidence, layout, processing_time, err) ==
    [json |-> json, text |-> text, confidence |-> confidence, layout |-> layout,
     processing_time |-> processing_time, error |-> err]
\* a body that is not JSON: response.json() rejects
BodyInvalid == Body("invalid", JUndefined, JUndefined, JUndefined, JUndefined, JUndefined)
\* the JSON text `null`
BodyNull == Body("null", JUndefined, JUndefined, JUndefined, JUndefined, JUndefined)

Texts == {JUndefined, JStr(""), JStr("hello")}
Confidences == {JUndefined, JNull, JNum("0"), JNum("0.87"), JNum("1")}
Layouts == {JUndefined, JNull, JObj, JArr("")}
ProcessingTimes == {JUndefined, JNum("0"), JNum("2.5")}
BackendErrors == {JUndefined, JNull, JStr(""), JStr("GPU busy"), JNum("0"),
                  JNum("42"), JArr(""), JObj}

ResultBodies == {Body("object", t, c, l, p, JUndefined) :
                    t \in Texts, c \in Confidences, l \in Layouts, p \in ProcessingTimes}
ErrorBodies == {Body("object", JUndefined, JUndefined, JUndefined, JUndefined, e) :
                    e \in BackendErrors}
Bodies == {BodyInvalid, BodyNull} \cup ResultBodies \cup ErrorBodies

Statuses == {200, 201, 404, 500, 503}

NoAnswer == [kind |-> "none", status |-> 0, body |-> BodyInvalid]
\* fetch rejects (network failure)
AnswerThrow == [kind |-> "throw", status |-> 0, body |-> BodyInvalid]
Answers == {AnswerThrow}
             \cup {[kind |-> "response", status |-> st, body |-> b] :
                      st \in Statuses, b \in Bodies}

\* response.ok
Ok(status) == status >= 200 /\ status <= 299

\* ---- thrown errors and responses ----
\* an Error object (every value thrown in this code is one)
Err(name, message) == [isError |-> TRUE, name |-> name, message |-> message]

\* error instanceof Error ? error.message : 'OCR処理でエラーが発生しました'
CatchMessage(e) == IF e.isError THEN e.message ELSE MsgOcrError

Response(status, text, confidence, layout, processing_time, err, details) ==
    [status |-> status, text |-> text, confidence |-> confidence, layout |-> layout,
     processing_time |-> processing_time, error |-> err, details |-> details]

\* NextResponse.json({ error: msg }, { status: 400 })
Reject(msg) ==
    Response(400, JUndefined, JUndefined, JUndefined, JUndefined, JStr(msg), JUndefined)

\* String(error) of an Error object
ErrToString(e) == IF e.message = "" THEN e.name ELSE e.name \o ": " \o e.message

\* mutant: the catch block answers { message: ... } with the status 502
CatchResponse_BadGateway(e, env) ==
    Response(502, JUndefined, JUndefined, JUndefined, JUndefined, JUndefined, JUndefined)

\* the catch block
CatchResponse(e, env) ==
    Response(500, JUndefined, JUndefined, JUndefined, JUndefined, JStr(CatchMessage(e)),
             IF env = "development" THEN JStr(ErrToString(e)) ELSE JUndefined)

\* mutant: the ceiling made exclusive
TooLarge_Exclusive(f) == f.size >= MaxFileSize

\* file.size > 10 * 1024 * 1024
TooLarge(f) == f.size > MaxFileSize

\* !file.type.startsWith('image/')
NotImage(f) == ~StartsWith(f.type, "image/")

\* process.env.BACKEND_URL || 'http://localhost:8000'
BackendBase(url) == IF url # "" THEN url ELSE DefaultBackendUrl

\* fetch(`${backendUrl}/api/v1/ocr/process`, { method: 'POST', body: backendFormData })
ForwardCall(url, f) ==
    [url |-> BackendBase(url) \o "/api/v1/ocr/process", method |-> "POST",
     field |-> "file", file |-> f]

\* mutant: the forwarding call retried once
ForwardCalls_Retry(url, f) == <<ForwardCall(url, f), ForwardCall(url, f)>>

\* the fetch calls the handler issues for a request that passed validation
ForwardCalls(url, f) == <<ForwardCall(url, f)>>

\* Lines 5-29: what the handler returns before forwarding, or "forward".
\* A string field has no size (undefined > n is false) and no type
\* (undefined.startsWith throws a TypeError, caught by the catch block).
Validate(req, env) ==
    CASE req.kind = "unparseable" ->
            CatchResponse(Err("TypeError", "Failed to parse body as FormData."), env)
      [] req.kind = "absent" -> Reject(MsgNoFile)
      [] req.kind = "string" ->
            IF req.str = "" THEN Reject(MsgNoFile)
            ELSE CatchResponse(
                    Err("TypeError",
                        "Cannot read properties of undefined (reading 'startsWith')"), env)
      [] OTHER ->
            IF TooLarge(req.file) THEN Reject(MsgTooLarge)
            ELSE IF NotImage(req.file) THEN Reject(MsgNotImage)
            ELSE Response(0, JUndefined, JUndefined, JUndefined, JUndefined,
                          JUndefined, JUndefined)

Forwards(req, env) == Validate(req, env).status = 0

\* Lines 43-46: the Error thrown for a non-2xx answer
BackendFailure(status, body) ==
    CASE body.json = "invalid" -> Err("Error", MsgBackendError)
      [] body.json = "null" ->
            Err("TypeError", "Cannot read properties of null (reading 'error')")
      [] OTHER ->
            Err("Error", JSToString(Or(body.error, JStr(MsgHttpError(status)))))

\* Lines 48-55: the response for a 2xx answer
Normalize(body, env) ==
    CASE body.json = "invalid" ->
            CatchResponse(Err("SyntaxError", "Unexpected token in JSON"), env)
      [] body.json = "null" ->
            CatchResponse(
                Err("TypeError", "Cannot read properties of null (reading 'text')"), env)
      [] OTHER ->
            Response(200, Or(body.text, JStr("")), Or(body.confidence, JNull),
                     Or(body.layout, JNull), Or(body.processing_time, JNull),
                     JUndefined, JUndefined)

\* Lines 38-67: the response once the forwarded call has settled
Settle(ans, env) ==
    CASE ans.kind = "throw" -> CatchResponse(Err("TypeError", "fetch failed"), env)
      [] ~Ok(ans.status) -> CatchResponse(BackendFailure(ans.status, ans.body), env)
      [] OTHER -> Normalize(ans.body, env)

InitProxy ==
    /\ pc = "idle"
    /\ backendUrl \in {"", "https://ocr.example"}
    /\ nodeEnv \in {"production", "development"}
    /\ request = NoRequest
    /\ forwarded = <<>>
    /\ answer = NoAnswer
    /\ responses = <<>>

\* POST, from the call to the first await that leaves the process (the fetch),
\* or to the return when validation ends the request
POST(req) ==
    /\ pc = "idle"
    /\ request' = req
    /\ IF Forwards(req, nodeEnv)
         THEN /\ forwarded' = forwarded \o ForwardCalls(backendUrl, req.file)
              /\ pc' = "fetching"
              /\ UNCHANGED responses
         ELSE /\ responses' = Append(responses, Validate(req, nodeEnv))
              /\ pc' = "responded"
              /\ UNCHANGED forwarded
    /\ UNCHANGED <<backendUrl, nodeEnv, answer>>
    /\ UNCHANGED uvars

\* POST, from the settling of the fetch to the return
POSTResume(ans) ==
    /\ pc = "fetching"
    /\ answer' = ans
    /\ responses' = Append(responses, Settle(ans, nodeEnv))
    /\ pc' = "responded"
    /\ UNCHANGED <<backendUrl, nodeEnv, request, forwarded>>
    /\ UNCHANGED uvars

NextProxy ==
    \/ \E req \in Requests : POST(req)
    \/ \E ans \in Answers : POSTResume(ans)

(***************************************************************************)
(* Upload page: page.tsx                                                   *)
(***************************************************************************)
\* processOCR runs and FileReader reads the model follows
MaxProcess == 2
MaxReads == 2

\* throw new Error('OCR処理に失敗しました')
MsgOcrFailed == "OCR processing failed"

\* null of useState<OCRResult | null>; response.json() of the JSON text `null`
NoResult == BodyNull

PngA == File(1, "image/png", "bytesA")
JpegB == File(2, "image/jpeg", "bytesB")
TextC == File(3, "text/plain", "bytesC")
UIFiles == {PngA, JpegB, TextC}

\* the acceptedFiles argument of onDrop (multiple: false; [] when the dropzone
\* accepted nothing)
DropInputs == {<<>>} \cup {<<f>> : f \in UIFiles}

\* reader.result of readAsDataURL(file)
DataURL(f) == "data:" \o f.type \o ";base64," \o f.bytes

\* what the backend, called directly by the page, can answer
OcrBody(f) ==
    Body("object", JStr("text of " \o f.bytes), JNum("0.87"), JUndefined, JNum("2.5"),
         JUndefined)
UIBodies(f) == {BodyInvalid, BodyNull, OcrBody(f)}
UIAnswers(f) ==
    {AnswerThrow}
      \cup {[kind |-> "response", status |-> st, body |-> b] :
               st \in {200, 500}, b \in UIBodies(f)}

\* mutant: the MIME type check dropped
AcceptsDrop_AnyFile(acceptedFiles) == Len(acceptedFiles) > 0

\* file && file.type.startsWith('image/'), file = acceptedFiles[0]
AcceptsDrop(acceptedFiles) ==
    /\ Len(acceptedFiles) > 0
    /\ StartsWith(acceptedFiles[1].type, "image/")

\* the process button: rendered inside {imagePreview && ...}, disabled={isProcessing}
ProcessEnabled == imagePreview # "" /\ ~isProcessing

\* what the JSX of Home renders from the state
Rendering ==
    [preview |-> imagePreview,
     processButton |-> IF imagePreview = "" THEN "absent"
                       ELSE IF isProcessing THEN "disabled" ELSE "enabled",
     error |-> error,
     result |-> ocrResult,
     spinner |-> isProcessing,
     guide |-> (file = NoFile /\ ocrResult = NoResult)]

InitialRendering ==
    [preview |-> "", processButton |-> "absent", error |-> "", result |-> NoResult,
     spinner |-> FALSE, guide |-> TRUE]

\* mutant: throw new Error() without a message for a non-2xx response
OcrOutcome_NoMessage(ans) ==
    CASE ans.kind = "throw" ->
            [failed |-> TRUE, message |-> CatchMessage(Err("TypeError", "Failed to fetch")),
             result |-> NoResult]
      [] ~Ok(ans.status) ->
            [failed |-> TRUE, message |-> CatchMessage(Err("Error", "")),
             result |-> NoResult]
      [] ans.body.json = "invalid" ->
            [failed |-> TRUE,
             message |-> CatchMessage(Err("SyntaxError", "Unexpected token in JSON")),
             result |-> NoResult]
      [] OTHER ->
            [failed |-> FALSE, message |-> "", result |-> ans.body]

\* How a settled fetch ends processOCR (lines 63-70): the value handed to
\* setOcrResult, or the message the catch block hands to setError.
OcrOutcome(ans) ==
    CASE ans.kind = "throw" ->
            [failed |-> TRUE, message |-> CatchMessage(Err("TypeError", "Failed to fetch")),
             result |-> NoResult]
      [] ~Ok(ans.status) ->
            [failed |-> TRUE, message |-> CatchMessage(Err("Error", MsgOcrFailed)),
             result |-> NoResult]
      [] ans.body.json = "invalid" ->
            [failed |-> TRUE,
             message |-> CatchMessage(Err("SyntaxError", "Unexpected token in JSON")),
             result |-> NoResult]
      [] OTHER ->
            [failed |-> FALSE, message |-> "", result |-> ans.body]

InitUI ==
    /\ file = NoFile
    /\ imagePreview = ""
    /\ ocrResult = NoResult
    /\ isProcessing = FALSE
    /\ error = ""
    /\ readers = {}
    /\ inflight = {}
    /\ started = 0
    /\ fetches = 0
    /\ nreads = 0
    /\ loaded = 0
    /\ downloaded = ""
    /\ lastEvent = "init"

\* onDrop: lines 23-38
onDrop(acceptedFiles) ==
    /\ IF AcceptsDrop(acceptedFiles)
         THEN /\ nreads < MaxReads
              /\ file' = acceptedFiles[1]
              /\ error' = ""
              /\ nreads' = nreads + 1
              /\ readers' = readers \cup {[id |-> nreads + 1, file |-> acceptedFiles[1]]}
              /\ lastEvent' = "drop accepted"
         ELSE /\ error' = MsgNotImage
              /\ lastEvent' = "drop rejected"
              /\ UNCHANGED <<file, nreads, readers>>
    /\ UNCHANGED <<imagePreview, ocrResult, isProcessing, inflight, started, fetches,
                   downloaded>>
    /\ UNCHANGED loaded
    /\ UNCHANGED pvars

\* reader.onload: lines 31-33
readerOnload(r) ==
    /\ r \in readers
    /\ imagePreview' = DataURL(r.file)
    /\ readers' = readers \ {r}
    /\ lastEvent' = "onload"
    /\ loaded' = loaded + 1
    /\ UNCHANGED <<file, ocrResult, isProcessing, error, inflight, started, fetches,
                   nreads, downloaded>>
    /\ UNCHANGED pvars

\* the read fails: the reader has no onerror handler, nothing is set
readerError(r) ==
    /\ r \in readers
    /\ readers' = readers \ {r}
    /\ lastEvent' = "read error"
    /\ UNCHANGED <<file, imagePreview, ocrResult, isProcessing, error, inflight, started,
                   fetches, nreads, downloaded>>
    /\ UNCHANGED loaded
    /\ UNCHANGED pvars

\* processOCR, from the click on the process button to the await of the fetch:
\* lines 48-61
processOCR ==
    /\ ProcessEnabled
    /\ IF file = NoFile
         THEN /\ lastEvent' = "process without file"
              /\ UNCHANGED <<isProcessing, error, inflight, started, fetches>>
         ELSE /\ started < MaxProcess
              /\ started' = started + 1
              /\ isProcessing' = TRUE
              /\ error' = ""
              /\ fetches' = fetches + 1
              /\ inflight' = inflight \cup {[id |-> fetches + 1, file |-> file]}
              /\ lastEvent' = "process"
    /\ UNCHANGED <<file, imagePreview, ocrResult, readers, nreads, downloaded>>
    /\ UNCHANGED loaded
    /\ UNCHANGED pvars

\* processOCR, from the settling of the fetch to the end of finally: lines 63-73
processOCRResume(r, ans) ==
    /\ r \in inflight
    /\ inflight' = inflight \ {r}
    /\ IF OcrOutcome(ans).failed
         THEN /\ error' = OcrOutcome(ans).message
              /\ lastEvent' = "process failed"
              /\ UNCHANGED ocrResult
         ELSE /\ ocrResult' = OcrOutcome(ans).result
              /\ lastEvent' = "process done"
              /\ UNCHANGED error
    /\ isProcessing' = FALSE
    /\ UNCHANGED <<file, imagePreview, readers, started, fetches, nreads, downloaded>>
    /\ UNCHANGED loaded
    /\ UNCHANGED pvars

FetchSettles == \E r \in inflight : \E ans \in UIAnswers(r.file) : processOCRResume(r, ans)

\* downloadResult: lines 76-88 (the button is rendered inside {ocrResult && ...})
downloadResult ==
    /\ ocrResult # NoResult
    /\ downloaded' = JSToString(ocrResult.text)
    /\ lastEvent' = "download"
    /\ UNCHANGED <<file, imagePreview, ocrResult, isProcessing, error, readers, inflight,
                   started, fetches, nreads>>
    /\ UNCHANGED loaded
    /\ UNCHANGED pvars

\* mutant: resetAll also clears the busy flag
resetAll_ClearsBusy ==
    /\ imagePreview # ""
    /\ file' = NoFile
    /\ imagePreview' = ""
    /\ ocrResult' = NoResult
    /\ error' = ""
    /\ isProcessing' = FALSE
    /\ lastEvent' = "reset"
    /\ UNCHANGED <<readers, inflight, started, fetches, nreads, downloaded>>
    /\ UNCHANGED loaded
    /\ UNCHANGED pvars

\* resetAll: lines 90-95 (the button is rendered inside {imagePreview && ...})
resetAll ==
    /\ imagePreview # ""
    /\ file' = NoFile
    /\ imagePreview' = ""
    /\ ocrResult' = NoResult
    /\ error' = ""
    /\ lastEvent' = "reset"
    /\ UNCHANGED <<isProcessing, readers, inflight, started, fetches, nreads, downloaded>>
    /\ UNCHANGED loaded
    /\ UNCHANGED pvars

NextUI ==
    \/ \E acceptedFiles \in DropInputs : onDrop(acceptedFiles)
    \/ \E r \in readers : readerOnload(r)
    \/ \E r \in readers : readerError(r)
    \/ processOCR
    \/ FetchSettles
    \/ downloadResult
    \/ resetAll

(***************************************************************************)
(* Specifications                                                          *)
(***************************************************************************)
Init == InitProxy /\ InitUI

Next == NextProxy \/ NextUI

Spec == Init /\ [][Next]_vars

\* the proxy route alone, the page left in its initial state
SpecProxy == Init /\ [][NextProxy]_vars

\* the page alone, the route left idle
InitPage == Init /\ backendUrl = "" /\ nodeEnv = "production"

SpecUI == InitPage /\ [][NextUI]_vars

\* a fetch, once sent, runs to completion or failure
FairSpecUI == SpecUI /\ WF_vars(FetchSettles)

(***************************************************************************)
(* Claims about the proxy route (checked under SpecProxy)                  *)
(***************************************************************************)
\* the response of the finished handler
TheResponse == responses[1]

\* the request carries an image file of at most 10 MiB
ValidUpload ==
    /\ request.kind = "file"
    /\ request.file.size <= 10 * 1024 * 1024
    /\ StartsWith(request.file.type, "image/")

\* the request has a file field, but no valid upload in it, or no file field
InvalidUpload ==
    \/ request.kind = "absent"
    \/ request.kind = "string"
    \/ /\ request.kind = "file"
       /\ \/ request.file.size > 10 * 1024 * 1024
          \/ ~StartsWith(request.file.type, "image/")

\* C1: a POST whose file field is absent, carries no image file, is larger than
\* 10 MiB or is not of an image type is answered with status 400 and
\* { error: <non-empty string> }, and nothing is sent to the backend.
C1_InvalidUploadRejected ==
    (pc = "responded" /\ InvalidUpload) =>
        /\ Len(responses) = 1
        /\ TheResponse.status = 400
        /\ TheResponse.error.t = "string"
        /\ TheResponse.error.s # ""
        /\ forwarded = <<>>

\* C2: the size ceiling is inclusive: an image of exactly 10 MiB is forwarded and
\* not rejected, an image of 10 MiB + 1 byte is rejected with status 400 and the
\* backend is not called.
C2_CeilingInclusive ==
    (pc # "idle" /\ request.kind = "file" /\ StartsWith(request.file.type, "image/")) =>
        /\ request.file.size = 10 * 1024 * 1024 =>
              /\ Len(forwarded) = 1
              /\ forwarded[1].file = request.file
              /\ pc = "responded" => TheResponse.status # 400
        /\ request.file.size = 10 * 1024 * 1024 + 1 =>
              /\ forwarded = <<>>
              /\ pc = "responded"
              /\ TheResponse.status = 400

C2_Witness ==
    /\ pc = "responded"
    /\ request.kind = "file"
    /\ request.file.size = 10 * 1024 * 1024
    /\ Len(forwarded) = 1
    /\ TheResponse.status = 200

\* the backend answered 2xx with a JSON object in the documented shape: text a
\* string, confidence and processing_time numbers or omitted
DocumentedResult ==
    /\ answer.kind = "response"
    /\ answer.status >= 200 /\ answer.status <= 299
    /\ answer.body.json = "object"
    /\ answer.body.text.t = "string"
    /\ answer.body.confidence.t \in {"undefined", "number"}
    /\ answer.body.processing_time.t \in {"undefined", "number"}

\* the backend's value of an optional field, null when the field is omitted
Defaulted(v) == IF v = JUndefined THEN JNull ELSE v

\* C3: for a 2xx JSON answer the proxy returns status 200 and exactly the keys
\* text, confidence, layout, processing_time; each optional field is the backend's
\* value unchanged when supplied and null only when omitted; text is the
\* backend's text.
C3_ResultPassedThrough ==
    (pc = "responded" /\ DocumentedResult) =>
        /\ TheResponse.status = 200
        /\ TheResponse.text = answer.body.text
        /\ TheResponse.confidence = Defaulted(answer.body.confidence)
        /\ TheResponse.layout = Defaulted(answer.body.layout)
        /\ TheResponse.processing_time = Defaulted(answer.body.processing_time)
        /\ TheResponse.error = JUndefined
        /\ TheResponse.details = JUndefined

\* the non-2xx body is JSON carrying an error message
CarriesMessage ==
    /\ answer.body.json = "object"
    /\ answer.body.error.t = "string"
    /\ answer.body.error.s # ""

\* C4: a non-2xx answer of the backend is answered with status 500 and an error
\* string: the backend's error message when its body is JSON carrying one, a
\* non-empty generic message otherwise.
C4_BackendFailureSurfaced ==
    (pc = "responded" /\ answer.kind = "response"
        /\ ~(answer.status >= 200 /\ answer.status <= 299)) =>
        /\ TheResponse.status = 500
        /\ TheResponse.error.t = "string"
        /\ CarriesMessage => TheResponse.error.s = answer.body.error.s
        /\ ~CarriesMessage => TheResponse.error.s # ""

\* C5: a POST that passes validation issues exactly one forwarding request, to
\* {backend}/api/v1/ocr/process, carrying the received file under the field
\* `file`, whatever the backend answers; a POST never issues a second one.
C5_ForwardedOnce ==
    /\ Len(forwarded) <= 1
    /\ (pc # "idle" /\ ValidUpload) =>
          forwarded =
            <<[url |-> (IF backendUrl = "" THEN "http://localhost:8000" ELSE backendUrl)
                         \o "/api/v1/ocr/process",
               method |-> "POST", field |-> "file", file |-> request.file]>>

C5_Witness ==
    /\ pc = "responded"
    /\ ValidUpload
    /\ answer.kind = "throw"
    /\ Len(forwarded) = 1
    /\ forwarded[1].file = request.file

\* C6: every POST ends with exactly one response, of status 200, 400 or 500, and
\* every 400 and 500 response carries an error string, whatever went wrong.
C6_OneResponse ==
    /\ pc # "responded" => responses = <<>>
    /\ pc = "responded" =>
          /\ Len(responses) = 1
          /\ TheResponse.status \in {200, 400, 500}
          /\ TheResponse.status \in {400, 500} => TheResponse.error.t = "string"

C6_Witness ==
    /\ pc = "responded"
    /\ answer.kind = "response"
    /\ answer.status = 200
    /\ answer.body.json = "invalid"
    /\ Len(responses) = 1
    /\ TheResponse.status = 500
    /\ TheResponse.error.t = "string"

(***************************************************************************)
(* Claims about the upload page (checked under SpecUI and FairSpecUI)      *)
(***************************************************************************)
\* C7: reset, in any state it can be invoked in, leaves the file null, the
\* preview empty, the result null and the error empty, and the page back in its
\* initial idle (not busy) rendering.
C7_ResetRestoresIdle ==
    lastEvent = "reset" =>
        /\ file = NoFile
        /\ imagePreview = ""
        /\ ocrResult = NoResult
        /\ error = ""
        /\ ~isProcessing
        /\ Rendering = InitialRendering

\* a selection that is not an image: nothing accepted, or a MIME type that does
\* not start with image/
NotAnImage(acceptedFiles) ==
    \/ acceptedFiles = <<>>
    \/ ~StartsWith(acceptedFiles[1].type, "image/")

\* C8 as stated: a selection that is not an image sets a non-empty error, stores
\* no file, starts no preview read and no network call, and the process action
\* is not enabled after the rejection.
C8_RejectedAndProcessDisabled ==
    [][\A acceptedFiles \in DropInputs :
          (NotAnImage(acceptedFiles) /\ onDrop(acceptedFiles)) =>
              /\ error' # ""
              /\ file' = file
              /\ readers' = readers /\ nreads' = nreads
              /\ inflight' = inflight /\ fetches' = fetches
              /\ ~ProcessEnabled']_vars

\* C8 as amended: a selection that is not an image sets a non-empty error, stores
\* no file, starts no preview read and no network call, and leaves the process
\* action as it was: not enabled by the rejection, still enabled when an earlier
\* image selection had enabled it.
C8_RejectedWithoutEnabling ==
    [][\A acceptedFiles \in DropInputs :
          (NotAnImage(acceptedFiles) /\ onDrop(acceptedFiles)) =>
              /\ error' # ""
              /\ file' = file
              /\ imagePreview' = imagePreview
              /\ readers' = readers /\ nreads' = nreads
              /\ inflight' = inflight /\ fetches' = fetches
              /\ ProcessEnabled' = ProcessEnabled]_vars

C8_Witness ==
    /\ lastEvent = "drop rejected"
    /\ error # ""
    /\ file # NoFile
    /\ ProcessEnabled

\* C9: the process action is disabled in every state in which an OCR request is
\* in flight, so at most one request is outstanding at any time.
C9_SingleInFlight ==
    /\ inflight # {} => ~ProcessEnabled
    /\ Cardinality(inflight) <= 1

\* a request is in flight for a file other than the one now selected and shown
C9_Witness ==
    /\ file # NoFile
    /\ imagePreview = DataURL(file)
    /\ \E r \in inflight : r.file # file

\* C10: every started OCR request completes: a failed one (fetch throws, non-2xx,
\* unreadable body) ends with a non-empty error and the busy flag false, a
\* successful one with the busy flag false, and exactly one fetch is issued per
\* process action.
C10_RequestCompletes ==
    /\ \A i \in 1..MaxProcess :
          (\E r \in inflight : r.id = i) ~>
              (isProcessing = FALSE /\ ~(\E r \in inflight : r.id = i))
    /\ [](lastEvent = "process failed" => (error # "" /\ ~isProcessing))
    /\ [](lastEvent = "process done" => ~isProcessing)
    /\ [](fetches = started)

C10_Witness ==
    /\ lastEvent = "process failed"
    /\ error = MsgOcrFailed
    /\ ~isProcessing
    /\ inflight = {}
    /\ fetches = 1

\* C11: a result that is shown belongs to the currently selected file: it was
\* returned for a request that sent that file, and with no file selected (after
\* reset) no result is shown, even when the response of an earlier request
\* arrives after the reset or after another file was selected.
C11_ResultOfSelectedFile ==
    ocrResult # NoResult =>
        /\ file # NoFile
        /\ ocrResult = OcrBody(file)

\* every preview read that was started has completed (its onload has run)
AllReadsCompleted == readers = {} /\ loaded = nreads

\* C12: once all pending preview reads have completed, the preview is the
\* data-URL of the currently selected file, and is empty when no file is
\* selected, for every interleaving of selections, resets and read completions.
C12_PreviewOfSelectedFile ==
    AllReadsCompleted =>
        imagePreview = (IF file = NoFile THEN "" ELSE DataURL(file))

====
